---- MODULE Spec2Model ----
(***************************************************************************)
(* Tsunami early-warning decision pipeline of disaster-prediction:         *)
(*   - IndiaImpactFilter.assess_india_risk   (src/src/filtering)           *)
(*   - RiskAssessor.generate_comprehensive_assessment                      *)
(*   - RealTimeInferenceEngine monitoring loop and manual checks           *)
(*   - the process-wide cloud_alert_state of src/app.py                    *)
(*                                                                         *)
(* Units.  Probabilities and factors are integers in hundredths            *)
(* (0.25 = 25), the fused score is in ten-thousandths (0.3 = 3000),        *)
(* magnitudes are in tenths (6.5 = 65), depths and distances in km,        *)
(* latitudes and longitudes in whole degrees.                              *)
(***************************************************************************)
EXTENDS Integers, Sequences, FiniteSets, TLC

VARIABLES
    \* ---- IndiaImpactFilter: one call's inputs, configuration and result
    eq,                 \* earthquake_data of the call
    pred,               \* model_prediction of the call
    cfg,                \* config: critical_radius_km, coastline, thresholds
    filterResult,       \* dict returned by assess_india_risk, or NoResult
    \* ---- RealTimeInferenceEngine / RiskAssessor
    is_running,         \* self.is_running
    monitoring_thread,  \* self.monitoring_thread: a loop id, or 0 for None
    check_interval,     \* self.check_interval
    current_assessment, \* self.current_assessment
    last_check_time,    \* self.last_check_time: FALSE for None, TRUE once set
    alert_history,      \* RiskAssessor.alert_history
    pc,                 \* position of every thread (loops and manual callers)
    local,              \* the assessment a thread holds in its frame
    stopper,            \* position of the stop_monitoring caller
    stop_returned,      \* stop_monitoring has returned and no start since
    stop_seen,          \* per loop: it was alive when stop_monitoring ran
    \* ---- cloud alert state of src/app.py
    cloud_alert_state,  \* the module-level dict
    iot_alert_history,  \* the module-level list
    writer,             \* position and arguments of the writing handler
    poll_result,        \* what the last reader returned, or NoResult
    now,                \* datetime.utcnow(), as a tick count
    \* ---- single calls of the pure parts, and history queries
    zoneResult,         \* what _evaluate_location_threat returned, or NoResult
    regionsCall,        \* propagation_risk passed to _identify_affected_regions
                        \* and the list it returned, or NoResult
    call_advisories,    \* advisories passed to generate_comprehensive_assessment
    call_assessment,    \* what generate_comprehensive_assessment returned
    history_result,     \* hours passed to get_alert_history, the clock it
                        \* read and the list it returned, or NoResult
    checkCall,          \* what the collectors, the model and the other steps
                        \* of one run_tsunami_check did, and what it returned
    \* ---- the engine singleton of src/web_app/api_routes.py
    inference_engine,   \* the module global: 0 for None, else the instance
    engine_lock,        \* holder of engine_lock, 0 when free
    getter,             \* per caller of get_inference_engine: position, result
    engines_built       \* RealTimeInferenceEngine() calls that have returned

filterVars == <<eq, pred, cfg, filterResult>>
engineVars == <<is_running, monitoring_thread, check_interval,
                current_assessment, last_check_time, alert_history,
                pc, local, stopper, stop_returned, stop_seen>>
cloudVars  == <<cloud_alert_state, iot_alert_history, writer, poll_result, now>>
callVars   == <<zoneResult, regionsCall, call_advisories, call_assessment,
                history_result>>
apiVars    == <<inference_engine, engine_lock, getter, engines_built>>
vars       == <<filterVars, engineVars, cloudVars, callVars, checkCall, apiVars>>

NoResult == [kind |-> "none"]

\* None in 'distance_to_coast_km'
NoDistance == -1

(***************************************************************************)
(* IndiaImpactFilter                                                       *)
(***************************************************************************)

\* self.critical_zones, in insertion (= iteration) order
critical_zones ==
    << [zone |-> "andaman_subduction", lat_min |-> 0,   lat_max |-> 15,
        lon_min |-> 90, lon_max |-> 100, threat_level |-> "critical"],
       [zone |-> "makran_subduction",  lat_min |-> 20,  lat_max |-> 27,
        lon_min |-> 60, lon_max |-> 68,  threat_level |-> "high"],
       [zone |-> "sumatra_subduction", lat_min |-> -10, lat_max |-> 5,
        lon_min |-> 90, lon_max |-> 105, threat_level |-> "medium"],
       [zone |-> "arabian_sea",        lat_min |-> 10,  lat_max |-> 25,
        lon_min |-> 60, lon_max |-> 75,  threat_level |-> "medium"] >>

threat_weights(level) ==
    CASE level = "critical" -> 100
      [] level = "high"     -> 80
      [] level = "medium"   -> 50

InZone(z, lat, lon) ==
    /\ z.lat_min <= lat /\ lat <= z.lat_max
    /\ z.lon_min <= lon /\ lon <= z.lon_max

\* _evaluate_location_threat: first zone in iteration order containing the point
RECURSIVE ZoneScan(_, _, _)
ZoneScan(i, lat, lon) ==
    IF i > Len(critical_zones)
    THEN [zone |-> "none", threat_level |-> "none", threat_weight |-> 0]
    ELSE IF InZone(critical_zones[i], lat, lon)
         THEN [zone          |-> critical_zones[i].zone,
               threat_level  |-> critical_zones[i].threat_level,
               threat_weight |-> threat_weights(critical_zones[i].threat_level)]
         ELSE ZoneScan(i + 1, lat, lon)

MutEvaluateLocationThreat(lat, lon) ==
    IF ZoneScan(1, lat, lon).zone = "none"
    THEN [zone |-> "open_ocean", threat_level |-> "medium", threat_weight |-> 50]
    ELSE ZoneScan(1, lat, lon)

MutEvaluateLastZone(lat, lon) ==
    LET hits == {i \in 1..Len(critical_zones) : InZone(critical_zones[i], lat, lon)}
        last == CHOOSE i \in hits : \A j \in hits : j <= i
    IN  IF hits = {} THEN ZoneScan(1, lat, lon)
        ELSE [zone          |-> critical_zones[last].zone,
              threat_level  |-> critical_zones[last].threat_level,
              threat_weight |-> threat_weights(critical_zones[last].threat_level)]

evaluate_location_threat(lat, lon) == ZoneScan(1, lat, lon)

\* _haversine_distance from the epicentre to the centre of a coastal region;
\* the great-circle distances are given with the event
RegionDistance(e, region) == e.dist_region[region]

\* float('inf')
Infinity == 1000000

Min2(a, b) == IF a <= b THEN a ELSE b

\* _calculate_distance_to_india: minimum over the configured regions
RECURSIVE MinDistance(_, _, _)
MinDistance(e, coastline, i) ==
    IF i > Len(coastline) THEN Infinity
    ELSE Min2(RegionDistance(e, coastline[i]), MinDistance(e, coastline, i + 1))

calculate_distance_to_india(e, coastline) == MinDistance(e, coastline, 1)

\* _evaluate_propagation_direction
evaluate_propagation_direction(magnitude, dist_center) ==
    IF magnitude >= 80 THEN 100
    ELSE IF magnitude >= 70 THEN 80
    ELSE IF dist_center < 1000 THEN 90 ELSE 50

\* _assess_depth_factor
assess_depth_factor(depth, magnitude) ==
    IF magnitude >= 75
    THEN (IF depth < 70 THEN 100 ELSE IF depth < 100 THEN 70 ELSE 30)
    ELSE IF magnitude >= 70
    THEN (IF depth < 50 THEN 100 ELSE IF depth < 70 THEN 60 ELSE 20)
    ELSE (IF depth < 40 THEN 80 ELSE IF depth < 60 THEN 40 ELSE 10)

MutImpactRadius(magnitude) ==
    IF magnitude >= 85 THEN 3000
    ELSE IF magnitude >= 80 THEN 3000
    ELSE IF magnitude >= 75 THEN 2000
    ELSE IF magnitude >= 70 THEN 1500
    ELSE 1000

\* impact_radius of _identify_affected_regions
impact_radius(magnitude) ==
    IF magnitude >= 85 THEN 4000
    ELSE IF magnitude >= 80 THEN 3000
    ELSE IF magnitude >= 75 THEN 2000
    ELSE IF magnitude >= 70 THEN 1500
    ELSE 1000

\* _identify_affected_regions: the regions, in configuration order, whose
\* centre lies within the impact radius
identify_affected_regions(e, coastline, propagation_risk) ==
    IF propagation_risk < 30 THEN << >>
    ELSE SelectSeq(coastline,
             LAMBDA r : RegionDistance(e, r) <= impact_radius(e.magnitude))

MutNormalizeDistance(distance) ==
    IF distance <= 500 THEN 100
    ELSE IF distance <= 1000 THEN 80
    ELSE IF distance <= 2000 THEN 60
    ELSE IF distance <= 3000 THEN 40
    ELSE 0

\* _normalize_distance
normalize_distance(distance) ==
    IF distance <= 500 THEN 100
    ELSE IF distance <= 1000 THEN 80
    ELSE IF distance <= 2000 THEN 60
    ELSE IF distance <= 3000 THEN 40
    ELSE 20

Clip(x, lo, hi) == IF x < lo THEN lo ELSE IF x > hi THEN hi ELSE x

MutScoreUnclipped(model_risk, location, distance, propagation, depth) ==
    45 * model_risk + 25 * location + 20 * distance + 10 * propagation + 10 * depth

MutScoreInverted(model_risk, location, distance, propagation, depth) ==
    Clip(35 * (100 - model_risk) + 25 * location + 20 * distance
           + 10 * propagation + 10 * depth, 0, 10000)

\* _calculate_india_risk_score (ten-thousandths)
calculate_india_risk_score(model_risk, location, distance, propagation, depth) ==
    Clip(35 * model_risk + 25 * location + 20 * distance
           + 10 * propagation + 10 * depth, 0, 10000)

MutDetermineRiskLevel(risk_score, thresholds) ==
    IF risk_score >= thresholds.high_risk THEN "HIGH"
    ELSE IF risk_score >= thresholds.medium_risk THEN "MEDIUM"
    ELSE IF risk_score >= thresholds.low_risk THEN "LOW"
    ELSE "NONE"

\* _determine_risk_level
determine_risk_level(risk_score, thresholds) ==
    IF risk_score >= thresholds.high_risk THEN "HIGH"
    ELSE IF risk_score >= thresholds.medium_risk THEN "MEDIUM"
    ELSE IF risk_score >= thresholds.low_risk THEN "LOW"
    ELSE "MINIMAL"

MutCreateNoRiskResponse(reason, prediction) ==
    [kind               |-> "filter",
     india_at_risk      |-> FALSE,
     india_risk_score   |-> 0,
     risk_level         |-> "NONE",
     distance_to_coast_km |-> NoDistance,
     location_threat    |-> "none",
     affected_regions   |-> << "west_coast" >>,
     reasoning          |-> reason]

\* _create_no_risk_response
create_no_risk_response(reason, prediction) ==
    [kind               |-> "filter",
     india_at_risk      |-> FALSE,
     india_risk_score   |-> 0,
     risk_level         |-> "NONE",
     distance_to_coast_km |-> NoDistance,
     location_threat    |-> "none",
     affected_regions   |-> << >>,
     reasoning          |-> reason]

MutAtRisk(score) == score > 5000

\* the 'india_at_risk' entry of the scored return value
AtRisk(score) == score > 3000

\* the dict returned by the fully scored path of assess_india_risk
ScoredResponse(e, p, c, threat) ==
    LET propagation_risk == evaluate_propagation_direction(e.magnitude, e.dist_center)
        depth_factor     == assess_depth_factor(e.depth, e.magnitude)
        distance_to_india == calculate_distance_to_india(e, c.coastline)
        score == calculate_india_risk_score(p.risk_probability,
                     threat.threat_weight, normalize_distance(distance_to_india),
                     propagation_risk, depth_factor)
    IN  [kind               |-> "filter",
         india_at_risk      |-> AtRisk(score),
         india_risk_score   |-> score,
         risk_level         |-> determine_risk_level(score, c.thresholds),
         distance_to_coast_km |-> distance_to_india,
         location_threat    |-> threat.threat_level,
         affected_regions   |-> identify_affected_regions(e, c.coastline,
                                                          propagation_risk),
         reasoning          |-> "scored"]

\* assess_india_risk
assess_india_risk(e, p, c) ==
    LET threat == evaluate_location_threat(e.latitude, e.longitude)
    IN  IF p.risk_probability < 25
        THEN create_no_risk_response("Model prediction below threshold", p)
        ELSE IF threat.threat_level = "none"
        THEN create_no_risk_response("Epicenter outside critical zones for India", p)
        ELSE IF calculate_distance_to_india(e, c.coastline) > c.critical_radius_km
        THEN create_no_risk_response("Epicenter too distant", p)
        ELSE ScoredResponse(e, p, c, threat)

(***************************************************************************)
(* RiskAssessor                                                            *)
(***************************************************************************)

\* An advisory's 'level' text is represented by the set of keywords that
\* the lower-cased text contains.
AdvisoryLevel(advisory) ==
    IF "major" \in advisory \/ "warning" \in advisory THEN "WARNING"
    ELSE IF "advisory" \in advisory THEN "ADVISORY"
    ELSE IF "watch" \in advisory THEN "WATCH"
    ELSE "NOMATCH"

MutAdvisoryScan(advisories, i) ==
    IF i > Len(advisories) THEN "NOMATCH" ELSE AdvisoryLevel(advisories[i])

\* the loop over incois_advisories: the first advisory that names a level
RECURSIVE AdvisoryScan(_, _)
AdvisoryScan(advisories, i) ==
    IF i > Len(advisories) THEN "NOMATCH"
    ELSE IF AdvisoryLevel(advisories[i]) # "NOMATCH"
         THEN AdvisoryLevel(advisories[i])
         ELSE AdvisoryScan(advisories, i + 1)

MutRiskAlertLevel(india_filter_result) ==
    IF ~india_filter_result.india_at_risk THEN "NONE"
    ELSE IF india_filter_result.risk_level = "HIGH" THEN "WARNING"
    ELSE IF india_filter_result.risk_level = "MEDIUM" THEN "ADVISORY"
    ELSE "WATCH"

MutRiskAlertLevelNone(india_filter_result) ==
    IF ~india_filter_result.india_at_risk THEN "NONE"
    ELSE IF india_filter_result.risk_level = "HIGH" THEN "WARNING"
    ELSE IF india_filter_result.risk_level = "MEDIUM" THEN "ADVISORY"
    ELSE IF india_filter_result.risk_level = "LOW" THEN "WATCH"
    ELSE "NONE"

\* 'Otherwise, use risk assessment'
RiskAlertLevel(india_filter_result) ==
    IF ~india_filter_result.india_at_risk THEN "NONE"
    ELSE IF india_filter_result.risk_level = "HIGH" THEN "WARNING"
    ELSE IF india_filter_result.risk_level = "MEDIUM" THEN "ADVISORY"
    ELSE IF india_filter_result.risk_level = "LOW" THEN "WATCH"
    ELSE "INFORMATION"

\* _determine_alert_level
determine_alert_level(india_filter_result, incois_advisories) ==
    IF AdvisoryScan(incois_advisories, 1) # "NOMATCH"
    THEN AdvisoryScan(incois_advisories, 1)
    ELSE RiskAlertLevel(india_filter_result)

\* keys of region_coords in _estimate_arrival_times
region_coords == {"west_coast", "east_coast", "andaman_nicobar"}

\* tsunami_speed, km/h
tsunami_speed == 700

\* _haversine_distance from the epicentre to the coordinates kept in
\* region_coords, taken to be the distance to the region's centre
CoordDistance(earthquake_data, region) == earthquake_data.dist_region[region]

MutArrivalTime(earthquake_data, region) ==
    earthquake_data.time
        - (CoordDistance(earthquake_data, region) * 3600) \div tsunami_speed

\* eq_time + timedelta(hours=distance / tsunami_speed); times are in seconds
ArrivalTime(earthquake_data, region) ==
    earthquake_data.time
        + (CoordDistance(earthquake_data, region) * 3600) \div tsunami_speed

\* arrival_time.strftime('%Y-%m-%d %H:%M UTC'): the minute, seconds dropped
ReportedMinute(arrival_time) == arrival_time \div 60

SeqRange(seq) == {seq[i] : i \in 1..Len(seq)}

\* _estimate_arrival_times: a dict keyed by the regions it has coordinates for
estimate_arrival_times(earthquake_data, affected_regions) ==
    [region \in {r \in SeqRange(affected_regions) : r \in region_coords} |->
        ReportedMinute(ArrivalTime(earthquake_data, region))]

\* the assessment dict compiled by generate_comprehensive_assessment
CompileAssessment(earthquake_data, india_filter_result, incois_advisories, assessment_time) ==
    [kind             |-> "full",
     timestamp        |-> assessment_time,
     alert_level      |-> determine_alert_level(india_filter_result, incois_advisories),
     india_at_risk    |-> india_filter_result.india_at_risk,
     india_risk_score |-> india_filter_result.india_risk_score,
     earthquake_info  |-> [magnitude |-> earthquake_data.magnitude],
     affected_regions |-> india_filter_result.affected_regions,
     estimated_arrival_times |->
         estimate_arrival_times(earthquake_data, india_filter_result.affected_regions)]

MutStoreInHistory(history, assessment) == history

MutStoreAtFront(history, assessment) == <<assessment>> \o history

\* 'Store in history': self.alert_history.append(assessment)
StoreInHistory(history, assessment) == Append(history, assessment)

\* timedelta(hours=1), in clock ticks
TicksPerHour == 1

\* get_alert_history: the alerts stamped at or after the cutoff time
get_alert_history(history, hours, utcnow) ==
    SelectSeq(history, LAMBDA alert : alert.timestamp >= utcnow - hours * TicksPerHour)

\* _create_no_threat_assessment
create_no_threat_assessment ==
    [kind             |-> "nothreat",
     alert_level      |-> "NONE",
     india_at_risk    |-> FALSE,
     india_risk_score |-> 0]

(***************************************************************************)
(* Inputs of the filter specification                                      *)
(***************************************************************************)

Latitudes       == {-20, 0, 5, 12, 22}
Longitudes      == {50, 64, 72, 95, 102}
Magnitudes      == {50, 65, 70, 75, 82}
Depths          == {20, 45, 65, 85, 120}
CenterDistances == {800, 2400}
RiskProbabilities == {0, 24, 25, 50, 90, 100}

Thresholds ==
    { [high_risk |-> 7000, medium_risk |-> 5000, low_risk |-> 3000],
      [high_risk |-> 8000, medium_risk |-> 6000, low_risk |-> 4000] }

\* india_region.coastline: the configured regions, in mapping order
Coastlines ==
    { <<"west_coast", "east_coast", "andaman_nicobar">>,
      <<"west_coast", "east_coast", "andaman_nicobar", "lakshadweep">> }

Configs ==
    [critical_radius_km : {2000, 5000}, coastline : Coastlines,
     thresholds : Thresholds]

\* distances from an epicentre to the centres of the regions
Distances(w, e, a, l) ==
    [r \in {"west_coast", "east_coast", "andaman_nicobar", "lakshadweep"} |->
        CASE r = "west_coast"      -> w
          [] r = "east_coast"      -> e
          [] r = "andaman_nicobar" -> a
          [] r = "lakshadweep"     -> l]

RegionDistances ==
    { Distances(0, 500, 1800, 1200),     Distances(2900, 1800, 900, 4500),
      Distances(4500, 4500, 3500, 2900), Distances(1800, 2900, 4500, 500),
      Distances(3500, 1200, 2900, 0),    Distances(4500, 4500, 4500, 4500),
      Distances(2900, 3500, 2900, 1200) }

\* earthquake_data['time'], seconds
EventTimes == {0}

Earthquakes ==
    [latitude : Latitudes, longitude : Longitudes, magnitude : Magnitudes,
     depth : Depths, dist_region : RegionDistances, dist_center : CenterDistances,
     time : EventTimes]

Predictions == [risk_probability : RiskProbabilities]

\* the engine's configuration and a placeholder call, used where the
\* filter is not the subject
DefaultConfig ==
    [critical_radius_km |-> 5000,
     coastline |-> <<"west_coast", "east_coast", "andaman_nicobar">>,
     thresholds |-> [high_risk |-> 7000, medium_risk |-> 5000, low_risk |-> 3000]]

IdleEarthquake ==
    [latitude |-> 5, longitude |-> 95, magnitude |-> 82, depth |-> 20,
     dist_region |-> Distances(2900, 1800, 900, 4500), dist_center |-> 2400,
     time |-> 0]

IdlePrediction == [risk_probability |-> 90]

(***************************************************************************)
(* RealTimeInferenceEngine                                                 *)
(***************************************************************************)

MaxLoops   == 2      \* loop threads that can exist at once
MaxHistory == 1      \* assessments kept in alert_history

LoopIds   == 1..MaxLoops
\* the thread serving POST /run-check
ManualIds == {MaxLoops + 1}
Threads   == LoopIds \cup ManualIds

Intervals == {60, 300}

\* what one cycle can fetch: the USGS frame (in feed order), the model
\* output and the INCOIS advisories
QuakeSmall == [latitude |-> 12, longitude |-> 72, magnitude |-> 50, depth |-> 20,
               dist_region |-> Distances(0, 500, 1800, 1200), dist_center |-> 800,
     time |-> 0]
QuakeBig   == [latitude |-> 5, longitude |-> 95, magnitude |-> 82, depth |-> 20,
               dist_region |-> Distances(2900, 1800, 900, 4500), dist_center |-> 2400,
     time |-> 0]
QuakeFar   == [latitude |-> -20, longitude |-> 50, magnitude |-> 70, depth |-> 45,
               dist_region |-> Distances(4500, 4500, 4500, 4500), dist_center |-> 2400,
     time |-> 0]

Fetches == { <<>>, <<QuakeSmall>>, <<QuakeSmall, QuakeBig>>, <<QuakeFar, QuakeBig>> }
EnginePredictions == { [risk_probability |-> 90] }
AdvisoryLists == { <<>> }

\* earthquakes[earthquakes['magnitude'] >= 6.5]
Significant(earthquakes) == SelectSeq(earthquakes, LAMBDA q : q.magnitude >= 65)

Alive(t) == pc[t] \notin {"unborn", "exited"}

\* a thread is inside run_tsunami_check
InFlight(t) == pc[t] \in {"run", "assign"}

MutShouldHandle(assessment) ==
    assessment.kind # "none" /\ ~assessment.india_at_risk

\* 'if assessment and assessment['india_at_risk']' of _monitoring_loop
ShouldHandle(assessment) ==
    assessment.kind # "none" /\ assessment.india_at_risk

\* where the loop goes when its try-body raises: the except clause logs
\* and falls through to time.sleep
MutAfterException == "exited"

AfterException == "sleep"

\* start_monitoring
StartMonitoring(interval) ==
    /\ IF is_running
       THEN UNCHANGED <<is_running, monitoring_thread, check_interval, pc,
                        stop_returned, stop_seen>>
       ELSE \E t \in LoopIds :
              /\ ~Alive(t)
              /\ \A u \in LoopIds : u < t => Alive(u)
              /\ check_interval' = interval
              /\ is_running' = TRUE
              /\ monitoring_thread' = t
              /\ pc' = [pc EXCEPT ![t] = "while"]
              /\ stop_seen' = [stop_seen EXCEPT ![t] = FALSE]
              /\ stop_returned' = FALSE
    /\ UNCHANGED <<current_assessment, last_check_time, alert_history, local,
                   stopper>>

\* stop_monitoring, up to the join
StopMonitoringCall ==
    /\ stopper = "idle"
    /\ is_running' = FALSE
    /\ stop_seen' = [t \in LoopIds |-> stop_seen[t] \/ Alive(t)]
    /\ IF monitoring_thread # 0
       THEN stopper' = "joining" /\ UNCHANGED stop_returned
       ELSE stopper' = "idle" /\ stop_returned' = TRUE
    /\ UNCHANGED <<monitoring_thread, check_interval, current_assessment,
                   last_check_time, alert_history, pc, local>>

\* join(timeout=10) returns: the thread has ended, or ten seconds passed
StopMonitoringReturn ==
    /\ stopper = "joining"
    /\ stopper' = "idle"
    /\ stop_returned' = TRUE
    /\ UNCHANGED <<is_running, monitoring_thread, check_interval,
                   current_assessment, last_check_time, alert_history, pc,
                   local, stop_seen>>

\* 'while self.is_running'
LoopWhile(t) ==
    /\ pc[t] = "while"
    /\ pc' = [pc EXCEPT ![t] = IF is_running THEN "run" ELSE "exited"]
    /\ UNCHANGED <<is_running, monitoring_thread, check_interval,
                   current_assessment, last_check_time, alert_history, local,
                   stopper, stop_returned, stop_seen>>

\* run_tsunami_check, from the fetch to the return of a no-threat result,
\* to the except clause, or to the append of generate_comprehensive_assessment
RunCheck(t, after) ==
    /\ pc[t] = "run"
    /\ \/ \* an exception anywhere in the try body: return None
          /\ local' = [local EXCEPT ![t] = NoResult]
          /\ pc' = [pc EXCEPT ![t] = after]
          /\ UNCHANGED alert_history
       \/ \E earthquakes \in Fetches :
            /\ Significant(earthquakes) = <<>>
            /\ local' = [local EXCEPT ![t] = create_no_threat_assessment]
            /\ pc' = [pc EXCEPT ![t] = after]
            /\ UNCHANGED alert_history
       \/ \E earthquakes \in Fetches, p \in EnginePredictions,
             advisories \in AdvisoryLists :
            /\ Significant(earthquakes) # <<>>
            /\ Len(alert_history) < MaxHistory
            /\ LET latest_eq  == Significant(earthquakes)[1]
                   assessment == CompileAssessment(latest_eq,
                                     assess_india_risk(latest_eq, p, cfg),
                                     advisories, now)
               IN  /\ alert_history' = StoreInHistory(alert_history, assessment)
                   /\ local' = [local EXCEPT ![t] = assessment]
            /\ pc' = [pc EXCEPT ![t] = "assign"]
    /\ UNCHANGED <<is_running, monitoring_thread, check_interval,
                   current_assessment, last_check_time,
                   stopper, stop_returned, stop_seen>>

\* 'self.current_assessment = assessment; return assessment'
AssignCurrent(t, after) ==
    /\ pc[t] = "assign"
    /\ current_assessment' = local[t]
    /\ pc' = [pc EXCEPT ![t] = after]
    /\ UNCHANGED <<is_running, monitoring_thread, check_interval,
                   last_check_time, alert_history, local,
                   stopper, stop_returned, stop_seen>>

\* the loop body after run_tsunami_check returned
LoopPost(t) ==
    /\ pc[t] = "post"
    /\ IF ShouldHandle(local[t])
       THEN /\ pc' = [pc EXCEPT ![t] = "handle"]
            /\ UNCHANGED <<last_check_time, local>>
       ELSE /\ pc' = [pc EXCEPT ![t] = "sleep"]
            /\ last_check_time' = TRUE
            /\ local' = [local EXCEPT ![t] = NoResult]
    /\ UNCHANGED <<is_running, monitoring_thread, check_interval,
                   current_assessment, alert_history,
                   stopper, stop_returned, stop_seen>>

\* _handle_alert, then last_check_time; or an exception in either
LoopHandleAlert(t) ==
    /\ pc[t] = "handle"
    /\ \/ /\ last_check_time' = TRUE
          /\ pc' = [pc EXCEPT ![t] = "sleep"]
       \/ /\ UNCHANGED last_check_time
          /\ pc' = [pc EXCEPT ![t] = AfterException]
    /\ local' = [local EXCEPT ![t] = NoResult]
    /\ UNCHANGED <<is_running, monitoring_thread, check_interval,
                   current_assessment, alert_history,
                   stopper, stop_returned, stop_seen>>

\* time.sleep(self.check_interval) returns
LoopSleep(t) ==
    /\ pc[t] = "sleep"
    /\ pc' = [pc EXCEPT ![t] = "while"]
    /\ UNCHANGED <<is_running, monitoring_thread, check_interval,
                   current_assessment, last_check_time, alert_history,
                   local, stopper, stop_returned, stop_seen>>

LoopStep(t) ==
    \/ LoopWhile(t)
    \/ RunCheck(t, "post")
    \/ AssignCurrent(t, "post")
    \/ LoopPost(t)
    \/ LoopHandleAlert(t)
    \/ LoopSleep(t)

\* run_manual_check of api_routes: the handler enters run_tsunami_check
ManualCheckCall(t) ==
    /\ pc[t] = "idle"
    /\ pc' = [pc EXCEPT ![t] = "run"]
    /\ local' = [local EXCEPT ![t] = NoResult]
    /\ UNCHANGED <<is_running, monitoring_thread, check_interval,
                   current_assessment, last_check_time, alert_history,
                   stopper, stop_returned, stop_seen>>

ManualStep(t) ==
    \/ ManualCheckCall(t)
    \/ RunCheck(t, "idle")
    \/ AssignCurrent(t, "idle")

InitEngine ==
    /\ is_running = FALSE
    /\ monitoring_thread = 0
    /\ check_interval = 300
    /\ current_assessment = NoResult
    /\ last_check_time = FALSE
    /\ alert_history = <<>>
    /\ pc = [t \in Threads |-> IF t \in LoopIds THEN "unborn" ELSE "idle"]
    /\ local = [t \in Threads |-> NoResult]
    /\ stopper = "idle"
    /\ stop_returned = FALSE
    /\ stop_seen = [t \in LoopIds |-> FALSE]

(***************************************************************************)
(* Cloud alert state (src/app.py)                                          *)
(***************************************************************************)

MaxClock      == 2   \* ticks of utcnow()
MaxIotHistory == 2   \* entries kept in iot_alert_history

Message(text, magnitude, depth) ==
    [text |-> text, magnitude |-> magnitude, depth |-> depth]

EmptyMessage == Message("", 0, 0)

\* request bodies of POST /iot/cloud/alert, after data.get's defaults
SetRequests ==
    { [level |-> 1, message |-> Message("Alert", 0, 0)],
      [level |-> 3, message |-> Message("Evacuate", 0, 0)] }

\* request bodies of POST /predict with the model's raw probability
PredictRequests ==
    { [magnitude |-> 90, depth |-> 20,  latitude |-> 10, longitude |-> 90,
       probability |-> 100],
      [magnitude |-> 80, depth |-> 20,  latitude |-> 10, longitude |-> 90,
       probability |-> 50],
      [magnitude |-> 60, depth |-> 120, latitude |-> 40, longitude |-> 10,
       probability |-> 10] }

\* adjusted_probability of predict, times 350 000 000:
\*   probability * 0.4 + (depth_factor * mag_factor * ocean_factor) * 0.6
AdjustedProbability(r) ==
    LET depth_factor == IF r.depth < 50 THEN 100
                        ELSE IF r.depth < 100 THEN 70 ELSE 30
        mag35        == IF r.magnitude > 55
                        THEN (IF r.magnitude - 55 < 35 THEN r.magnitude - 55 ELSE 35)
                        ELSE 0
        ocean_factor == IF 70 < r.longitude /\ r.longitude < 100
                           /\ -10 < r.latitude /\ r.latitude < 25
                        THEN 90 ELSE 50
    IN  Clip(1400000 * r.probability + 600 * depth_factor * mag35 * ocean_factor,
             0, 350000000)

\* alert_level of predict
PredictAlertLevel(r) ==
    IF AdjustedProbability(r) > 315000000 THEN 4
    ELSE IF AdjustedProbability(r) > 262500000 THEN 3
    ELSE IF AdjustedProbability(r) > 175000000 THEN 2
    ELSE IF AdjustedProbability(r) > 105000000 THEN 1
    ELSE 0

Interpretation(level) ==
    CASE level = 4 -> "CRITICAL"
      [] level = 3 -> "WARNING"
      [] level = 2 -> "ADVISORY"
      [] level = 1 -> "WATCH"
      [] OTHER     -> "LOW RISK"

\* the four fields /iot/cloud/poll returns
Polled(state) ==
    [active |-> state.active, level |-> state.level,
     message |-> state.message, timestamp |-> state.timestamp]

IdleWriter ==
    [op |-> "idle", step |-> 0, level |-> 0, message |-> EmptyMessage,
     before |-> Polled([active |-> FALSE, level |-> 0,
                        message |-> EmptyMessage, timestamp |-> 0])]

\* a handler that writes the state is entered
BeginWrite(op, level, message) ==
    /\ writer.op = "idle"
    /\ writer' = [op |-> op, step |-> 1, level |-> level, message |-> message,
                  before |-> Polled(cloud_alert_state)]
    /\ UNCHANGED <<cloud_alert_state, iot_alert_history, poll_result, now>>

\* set_cloud_alert is called
SetCloudAlertCall ==
    /\ Len(iot_alert_history) < MaxIotHistory
    /\ \E r \in SetRequests : BeginWrite("set", r.level, r.message)

\* clear_cloud_alert is called
ClearCloudAlertCall == BeginWrite("clear", 0, EmptyMessage)

\* predict is called with seismic parameters; it writes the state only
\* for alert_level >= 2
PredictCall ==
    \E r \in PredictRequests :
        IF PredictAlertLevel(r) >= 2
        THEN BeginWrite("predict", PredictAlertLevel(r),
                        Message(Interpretation(PredictAlertLevel(r)),
                                r.magnitude, r.depth))
        ELSE /\ writer.op = "idle"
             /\ UNCHANGED cloudVars

MutFieldWritesClear(op) == IF op = "clear" THEN 1 ELSE 5

\* number of field assignments each handler makes
FieldWrites(op) == IF op = "clear" THEN 4 ELSE 5

\* the n-th field assignment of the handler in progress
FieldWrite(state, w) ==
    CASE w.step = 1 -> [state EXCEPT !.active = (w.op # "clear")]
      [] w.step = 2 -> [state EXCEPT !.level = w.level]
      [] w.step = 3 -> [state EXCEPT !.message = w.message]
      [] w.step = 4 -> [state EXCEPT !.timestamp = now]
      [] w.step = 5 -> [state EXCEPT !.source =
                           IF w.op = "set" THEN "manual" ELSE "ai_prediction"]

\* one assignment cloud_alert_state[...] = ...
WriteField ==
    /\ writer.op # "idle"
    /\ writer.step <= FieldWrites(writer.op)
    /\ cloud_alert_state' = FieldWrite(cloud_alert_state, writer)
    /\ writer' = [writer EXCEPT !.step = writer.step + 1]
    /\ UNCHANGED <<iot_alert_history, poll_result, now>>

\* the handler returns; set_cloud_alert first appends to iot_alert_history
FinishWrite ==
    /\ writer.op # "idle"
    /\ writer.step > FieldWrites(writer.op)
    /\ iot_alert_history' =
          IF writer.op = "set"
          THEN Append(iot_alert_history,
                      [type |-> "cloud_alert", level |-> writer.level,
                       message |-> writer.message,
                       timestamp |-> cloud_alert_state.timestamp])
          ELSE iot_alert_history
    /\ writer' = IdleWriter
    /\ UNCHANGED <<cloud_alert_state, poll_result, now>>

\* polled fields the write in progress has already assigned
Fresh(w) == IF w.op = "idle" THEN 0
            ELSE IF w.step > 4 THEN 4 ELSE w.step - 1

\* what a reader gets: the fields as they are at this moment
ReadState(state, w) ==
    [kind |-> "poll", record |-> Polled(state), old |-> w.before,
     fresh |-> Fresh(w)]

\* poll_cloud_alert / cloud_alert_status
PollCloudAlert ==
    /\ poll_result' = ReadState(cloud_alert_state, writer)
    /\ UNCHANGED <<cloud_alert_state, iot_alert_history, writer, now>>

Tick ==
    /\ now < MaxClock
    /\ now' = now + 1
    /\ UNCHANGED <<cloud_alert_state, iot_alert_history, writer, poll_result>>

InitCloud ==
    /\ cloud_alert_state = [active |-> FALSE, level |-> 0,
                            message |-> EmptyMessage, timestamp |-> 0,
                            source |-> "none"]
    /\ iot_alert_history = <<>>
    /\ writer = IdleWriter
    /\ poll_result = NoResult
    /\ now = 1

(***************************************************************************)
(* The engine singleton (src/web_app/api_routes.py)                        *)
(***************************************************************************)

MaxGetters == 3      \* request threads calling get_inference_engine

GetterIds == 1..MaxGetters

\* what a caller holds: nothing yet, the exception of the constructor, or
\* the instance (instances are numbered from 1)
NothingYet == -2
Raised     == -1

MutLockFree(lock) == TRUE

\* engine_lock can be acquired
LockFree(lock) == lock = 0

\* a request thread enters get_inference_engine
GetEngineCall(g) ==
    /\ getter[g].pc = "idle"
    /\ getter' = [getter EXCEPT ![g] = [pc |-> "acquire", result |-> NothingYet]]
    /\ UNCHANGED <<inference_engine, engine_lock, engines_built>>

\* 'with engine_lock:' entered
GetEngineAcquire(g) ==
    /\ getter[g].pc = "acquire"
    /\ LockFree(engine_lock)
    /\ engine_lock' = g
    /\ getter' = [getter EXCEPT ![g].pc = "test"]
    /\ UNCHANGED <<inference_engine, engines_built>>

\* 'if inference_engine is None:'
GetEngineTest(g) ==
    /\ getter[g].pc = "test"
    /\ getter' = [getter EXCEPT ![g].pc =
                     IF inference_engine = 0 THEN "construct" ELSE "return"]
    /\ UNCHANGED <<inference_engine, engine_lock, engines_built>>

\* 'inference_engine = RealTimeInferenceEngine()': the constructor returns
\* and the global is assigned, or the constructor raises, the with block
\* is left and the lock released
GetEngineConstruct(g) ==
    /\ getter[g].pc = "construct"
    /\ \/ /\ engines_built' = engines_built + 1
          /\ inference_engine' = engines_built + 1
          /\ getter' = [getter EXCEPT ![g].pc = "return"]
          /\ UNCHANGED engine_lock
       \/ /\ getter' = [getter EXCEPT ![g] = [pc |-> "idle", result |-> Raised]]
          /\ engine_lock' = 0
          /\ UNCHANGED <<inference_engine, engines_built>>

\* 'return inference_engine', leaving the with block
GetEngineReturn(g) ==
    /\ getter[g].pc = "return"
    /\ getter' = [getter EXCEPT ![g] = [pc |-> "idle", result |-> inference_engine]]
    /\ engine_lock' = 0
    /\ UNCHANGED <<inference_engine, engines_built>>

InitApi ==
    /\ inference_engine = 0
    /\ engine_lock = 0
    /\ getter = [g \in GetterIds |-> [pc |-> "idle", result |-> NothingYet]]
    /\ engines_built = 0

(***************************************************************************)
(* Specifications                                                          *)
(***************************************************************************)

\* no call of the pure parts has been made
InitCalls ==
    /\ zoneResult = NoResult
    /\ regionsCall = NoResult
    /\ call_advisories = << >>
    /\ call_assessment = NoResult
    /\ history_result = NoResult
    /\ checkCall = NoResult
    /\ InitApi

InitFilterIdle ==
    /\ eq = IdleEarthquake
    /\ pred = IdlePrediction
    /\ cfg = DefaultConfig
    /\ filterResult = NoResult

\* ---- the monitoring engine
Init == InitFilterIdle /\ InitEngine /\ InitCloud /\ InitCalls

Start == \E i \in Intervals : StartMonitoring(i) /\ UNCHANGED <<filterVars, cloudVars, callVars, checkCall, apiVars>>
StopCall == StopMonitoringCall /\ UNCHANGED <<filterVars, cloudVars, callVars, checkCall, apiVars>>
StopReturn == StopMonitoringReturn /\ UNCHANGED <<filterVars, cloudVars, callVars, checkCall, apiVars>>
Loop == \E t \in LoopIds : LoopStep(t) /\ UNCHANGED <<filterVars, cloudVars, callVars, checkCall, apiVars>>
Manual == \E t \in ManualIds : ManualStep(t) /\ UNCHANGED <<filterVars, cloudVars, callVars, checkCall, apiVars>>

Next == Start \/ StopCall \/ StopReturn \/ Loop \/ Manual

Spec == Init /\ [][Next]_vars

\* every live thread is eventually scheduled
FairSpec ==
    Spec /\ \A t \in LoopIds :
                WF_vars(LoopStep(t) /\ UNCHANGED <<filterVars, cloudVars, callVars, checkCall, apiVars>>)

\* ---- one call of assess_india_risk on every input
InitFilter ==
    /\ eq \in Earthquakes
    /\ pred \in Predictions
    /\ cfg \in Configs
    /\ filterResult = NoResult
    /\ InitEngine /\ InitCloud /\ InitCalls

AssessIndiaRisk ==
    /\ filterResult = NoResult
    /\ filterResult' = assess_india_risk(eq, pred, cfg)
    /\ UNCHANGED <<eq, pred, cfg, engineVars, cloudVars, callVars, checkCall, apiVars>>

NextFilter == AssessIndiaRisk

SpecFilter == InitFilter /\ [][NextFilter]_vars

\* ---- the cloud alert handlers
InitCloudAlert == InitFilterIdle /\ InitEngine /\ InitCloud /\ InitCalls

SetCall == SetCloudAlertCall /\ UNCHANGED <<filterVars, engineVars, callVars, checkCall, apiVars>>
ClearCall == ClearCloudAlertCall /\ UNCHANGED <<filterVars, engineVars, callVars, checkCall, apiVars>>
Predict == PredictCall /\ UNCHANGED <<filterVars, engineVars, callVars, checkCall, apiVars>>
Write == WriteField /\ UNCHANGED <<filterVars, engineVars, callVars, checkCall, apiVars>>
Finish == FinishWrite /\ UNCHANGED <<filterVars, engineVars, callVars, checkCall, apiVars>>
Poll == PollCloudAlert /\ UNCHANGED <<filterVars, engineVars, callVars, checkCall, apiVars>>
Clock == Tick /\ UNCHANGED <<filterVars, engineVars, callVars, checkCall, apiVars>>

NextCloud == SetCall \/ ClearCall \/ Predict \/ Write \/ Finish \/ Poll \/ Clock

SpecCloud == InitCloudAlert /\ [][NextCloud]_vars

\* ---- one call of _evaluate_location_threat on every point of a grid
\* that holds both sides of every edge of every zone
ZoneLatitudes  == {-11, -10, -1, 0, 5, 6, 9, 10, 15, 16, 19, 20, 25, 27, 28}
ZoneLongitudes == {59, 60, 68, 69, 75, 76, 89, 90, 100, 101, 105, 106}

ZoneEvents ==
    { [IdleEarthquake EXCEPT !.latitude = lat, !.longitude = lon] :
          lat \in ZoneLatitudes, lon \in ZoneLongitudes }

InitZone ==
    /\ eq \in ZoneEvents
    /\ pred = IdlePrediction
    /\ cfg = DefaultConfig
    /\ filterResult = NoResult
    /\ InitEngine /\ InitCloud /\ InitCalls

EvaluateLocationThreat ==
    /\ zoneResult = NoResult
    /\ zoneResult' = evaluate_location_threat(eq.latitude, eq.longitude)
    /\ UNCHANGED <<filterVars, engineVars, cloudVars, regionsCall,
                   call_advisories, call_assessment, history_result, checkCall, apiVars>>

NextZone == EvaluateLocationThreat

SpecZone == InitZone /\ [][NextZone]_vars

\* ---- one call of _identify_affected_regions on every input
RegionMagnitudes  == {65, 69, 70, 74, 75, 79, 80, 84, 85, 90}
PropagationRisks  == {0, 29, 30, 50, 80, 90, 100}

\* the distances of the filter inputs, and distances on the edge of every
\* impact radius and just beyond it
RegionCallDistances ==
    RegionDistances \cup { Distances(1000, 1500, 2000, 3000),
                           Distances(4000, 1001, 1501, 2001),
                           Distances(3001, 4001, 1000, 4000) }

RegionEvents ==
    { [IdleEarthquake EXCEPT !.magnitude = mag, !.dist_region = d] :
          mag \in RegionMagnitudes, d \in RegionCallDistances }

RegionConfigs == { [DefaultConfig EXCEPT !.coastline = c] : c \in Coastlines }

InitRegions ==
    /\ eq \in RegionEvents
    /\ pred = IdlePrediction
    /\ cfg \in RegionConfigs
    /\ filterResult = NoResult
    /\ InitEngine /\ InitCloud
    /\ zoneResult = NoResult
    /\ regionsCall \in [kind : {"args"}, propagation_risk : PropagationRisks]
    /\ call_advisories = << >>
    /\ call_assessment = NoResult
    /\ history_result = NoResult
    /\ checkCall = NoResult
    /\ InitApi

IdentifyAffectedRegions ==
    /\ regionsCall.kind = "args"
    /\ regionsCall' =
          [kind |-> "regions", propagation_risk |-> regionsCall.propagation_risk,
           affected |-> identify_affected_regions(eq, cfg.coastline,
                                                  regionsCall.propagation_risk)]
    /\ UNCHANGED <<filterVars, engineVars, cloudVars, zoneResult,
                   call_advisories, call_assessment, history_result, checkCall, apiVars>>

NextRegions == IdentifyAffectedRegions

SpecRegions == InitRegions /\ [][NextRegions]_vars

\* ---- the alert history of one RiskAssessor: assessments and queries
MaxStored == 2       \* assessments kept in alert_history by this specification

HistoryQuakes == {QuakeBig, QuakeSmall}
HistoryHours  == {0, 1, 2}

engineCtl == <<is_running, monitoring_thread, check_interval, current_assessment,
               last_check_time, pc, local, stopper, stop_returned, stop_seen>>

InitHistory == InitFilterIdle /\ InitEngine /\ InitCloud /\ InitCalls

\* generate_comprehensive_assessment, called with what the filter returned
HistoryAssess ==
    /\ Len(alert_history) < MaxStored
    /\ \E q \in HistoryQuakes :
           alert_history' = StoreInHistory(alert_history,
               CompileAssessment(q, assess_india_risk(q, IdlePrediction, cfg),
                                 << >>, now))
    /\ UNCHANGED <<filterVars, engineCtl, cloudVars, callVars, checkCall, apiVars>>

\* get_alert_history(hours)
GetAlertHistory ==
    /\ \E hours \in HistoryHours :
           history_result' = [kind |-> "history", hours |-> hours, utcnow |-> now,
                              alerts |-> get_alert_history(alert_history, hours, now)]
    /\ UNCHANGED <<filterVars, engineVars, cloudVars, zoneResult, regionsCall,
                   call_advisories, call_assessment, checkCall, apiVars>>

HistoryClock == Tick /\ UNCHANGED <<filterVars, engineVars, callVars, checkCall, apiVars>>

NextHistory == HistoryAssess \/ GetAlertHistory \/ HistoryClock

SpecHistory == InitHistory /\ [][NextHistory]_vars

\* ---- one call of generate_comprehensive_assessment on every input
MaxAdvisories == 2   \* advisories in the list passed to one call

\* the 'level' texts: the keywords each contains
AdvisoryTexts ==
    { {}, {"watch"}, {"advisory"}, {"warning"}, {"major"}, {"warning", "advisory"} }

AdvisoryChoices == UNION { [1..n -> AdvisoryTexts] : n \in 0..MaxAdvisories }

\* events on a whole minute and 30 s past one, and an epicentre at the
\* coordinates of one region with two more regions a few km away
AssessorDistances  == RegionDistances \cup { Distances(0, 5, 10, 1200) }

AssessorQuakes ==
    [latitude : {-20, 5}, longitude : {102}, magnitude : {65, 82},
     depth : {20, 120}, dist_region : AssessorDistances, dist_center : {2400},
     time : {0, 90}]

AssessorPredictions == [risk_probability : {24, 25, 100}]

\* the filter has returned india_filter_result for the event
InitAssessor ==
    /\ eq \in AssessorQuakes
    /\ pred \in AssessorPredictions
    /\ cfg \in Configs
    /\ filterResult = assess_india_risk(eq, pred, cfg)
    /\ InitEngine /\ InitCloud
    /\ zoneResult = NoResult
    /\ regionsCall = NoResult
    /\ call_advisories \in AdvisoryChoices
    /\ call_assessment = NoResult
    /\ history_result = NoResult
    /\ checkCall = NoResult
    /\ InitApi

GenerateComprehensiveAssessment ==
    /\ call_assessment = NoResult
    /\ call_assessment' = CompileAssessment(eq, filterResult, call_advisories, now)
    /\ alert_history' = StoreInHistory(alert_history, call_assessment')
    /\ UNCHANGED <<filterVars, engineCtl, cloudVars, zoneResult, regionsCall,
                   call_advisories, history_result, checkCall, apiVars>>

NextAssessor == GenerateComprehensiveAssessment

SpecAssessor == InitAssessor /\ [][NextAssessor]_vars

\* ---- one call of run_tsunami_check on every outcome of its fetches
\* what an HTTP fetch of a collector gives: a body, or a timeout or error
Failed == [status |-> "failed"]
Ok(body) == [status |-> "ok", body |-> body]

MutFetchRecentEarthquakes(response) ==
    IF response.status = "failed" THEN <<QuakeBig>> ELSE response.body

\* USGSEarthquakeCollector.fetch_recent_earthquakes: an empty frame when
\* the request fails
fetch_recent_earthquakes(response) ==
    IF response.status = "failed" THEN << >> ELSE response.body

\* INCOISCollector.fetch_current_advisories: an empty list when the
\* request fails
fetch_current_advisories(response) ==
    IF response.status = "failed" THEN << >> ELSE response.body

MutExceptionResult == create_no_threat_assessment

\* 'except Exception: ... return None'
ExceptionResult == NoResult

\* an assessment left by an earlier cycle
EarlierAssessment ==
    CompileAssessment(QuakeBig, assess_india_risk(QuakeBig, IdlePrediction, DefaultConfig),
                      << >>, 0)

\* the arguments are what the outside world does during the call: the
\* two fetches, the model output, and whether a later step (ocean data,
\* preprocessing, model, filter, assessor) raises
CheckArguments ==
    [kind : {"args"},
     usgs : {Failed} \cup {Ok(frame) : frame \in Fetches},
     incois : {Failed, Ok(<< >>), Ok(<< {} >>), Ok(<< {"warning"} >>)},
     prediction : {[risk_probability |-> 10], [risk_probability |-> 90]},
     raises : BOOLEAN]

InitCheck ==
    /\ InitFilterIdle /\ InitCloud /\ InitApi
    /\ zoneResult = NoResult
    /\ regionsCall = NoResult
    /\ call_advisories = << >>
    /\ call_assessment = NoResult
    /\ history_result = NoResult
    /\ checkCall \in CheckArguments
    /\ is_running = FALSE
    /\ monitoring_thread = 0
    /\ check_interval = 300
    /\ \/ current_assessment = NoResult /\ alert_history = << >>
       \/ current_assessment = EarlierAssessment
          /\ alert_history = << EarlierAssessment >>
    /\ last_check_time = FALSE
    /\ pc = [t \in Threads |-> IF t \in LoopIds THEN "unborn" ELSE "idle"]
    /\ local = [t \in Threads |-> NoResult]
    /\ stopper = "idle"
    /\ stop_returned = FALSE
    /\ stop_seen = [t \in LoopIds |-> FALSE]

\* run_tsunami_check, start to return
RunTsunamiCheck ==
    /\ checkCall.kind = "args"
    /\ LET earthquakes == fetch_recent_earthquakes(checkCall.usgs)
           significant == Significant(earthquakes)
           latest_eq   == significant[1]
           assessment  ==
               CompileAssessment(latest_eq,
                   assess_india_risk(latest_eq, checkCall.prediction, cfg),
                   fetch_current_advisories(checkCall.incois), now)
       IN  IF significant = << >>
           THEN /\ checkCall' = [checkCall EXCEPT !.kind = "returned"] @@
                                    [result |-> create_no_threat_assessment]
                /\ UNCHANGED <<current_assessment, alert_history>>
           ELSE IF checkCall.raises
           THEN /\ checkCall' = [checkCall EXCEPT !.kind = "returned"] @@
                                    [result |-> ExceptionResult]
                /\ UNCHANGED <<current_assessment, alert_history>>
           ELSE /\ alert_history' = StoreInHistory(alert_history, assessment)
                /\ current_assessment' = assessment
                /\ checkCall' = [checkCall EXCEPT !.kind = "returned"] @@
                                    [result |-> assessment]
    /\ UNCHANGED <<filterVars, is_running, monitoring_thread, check_interval,
                   last_check_time, pc, local, stopper, stop_returned, stop_seen,
                   cloudVars, callVars, apiVars>>

SpecCheck == InitCheck /\ [][RunTsunamiCheck]_vars

\* ---- concurrent calls of get_inference_engine
NextSingleton ==
    \/ \E g \in GetterIds :
          GetEngineCall(g)
          /\ UNCHANGED <<filterVars, engineVars, cloudVars, callVars, checkCall>>
    \/ \E g \in GetterIds :
          GetEngineAcquire(g)
          /\ UNCHANGED <<filterVars, engineVars, cloudVars, callVars, checkCall>>
    \/ \E g \in GetterIds :
          GetEngineTest(g)
          /\ UNCHANGED <<filterVars, engineVars, cloudVars, callVars, checkCall>>
    \/ \E g \in GetterIds :
          GetEngineConstruct(g)
          /\ UNCHANGED <<filterVars, engineVars, cloudVars, callVars, checkCall>>
    \/ \E g \in GetterIds :
          GetEngineReturn(g)
          /\ UNCHANGED <<filterVars, engineVars, cloudVars, callVars, checkCall>>

SpecSingleton == Init /\ [][NextSingleton]_vars

(***************************************************************************)
(* Properties                                                              *)
(***************************************************************************)

OutsideAllZones(lat, lon) ==
    \A i \in 1..Len(critical_zones) : ~InZone(critical_zones[i], lat, lon)

\* C1: if the model risk is below 0.25, or the epicenter lies in no
\* critical zone, or the distance to the coast exceeds critical_radius_km,
\* then assess_india_risk returns india_risk_score 0.0, risk_level NONE and
\* india_at_risk False, whatever the magnitude, the depth and the other
\* factors are.
C1_NoRiskExits ==
    ( /\ filterResult.kind = "filter"
      /\ \/ pred.risk_probability < 25
         \/ OutsideAllZones(eq.latitude, eq.longitude)
         \/ \A i \in 1..Len(cfg.coastline) :
                eq.dist_region[cfg.coastline[i]] > cfg.critical_radius_km )
    => /\ filterResult.india_risk_score = 0
       /\ filterResult.risk_level = "NONE"
       /\ filterResult.india_at_risk = FALSE

\* Scenario B: magnitude 5.0 outside every zone with model risk 0.9
C1_Witness ==
    /\ filterResult.kind = "filter"
    /\ pred.risk_probability = 90
    /\ eq.magnitude = 50
    /\ OutsideAllZones(eq.latitude, eq.longitude)
    /\ \E i \in 1..Len(cfg.coastline) :
           eq.dist_region[cfg.coastline[i]] <= cfg.critical_radius_km
    /\ filterResult.india_at_risk = FALSE

\* C2: in every result of assess_india_risk, on the no-risk exits and on
\* the scored path, india_at_risk is True exactly when india_risk_score
\* is greater than 0.3.
C2_AtRiskIffAboveThreshold ==
    filterResult.kind = "filter"
    => (filterResult.india_at_risk <=> filterResult.india_risk_score > 3000)

\* a scored result that is at risk with a score below one half
C2_Witness ==
    /\ filterResult.kind = "filter"
    /\ filterResult.distance_to_coast_km # NoDistance
    /\ filterResult.india_at_risk
    /\ filterResult.india_risk_score < 5000

\* C3: at most one background monitoring loop is alive at any time.
C3_AtMostOneLoop ==
    Cardinality({t \in LoopIds : Alive(t)}) <= 1

\* C4: once stop_monitoring has returned (and monitoring has not been
\* started again), the background loop appends no further assessment to
\* the alert history.
C4_NoAppendAfterStop ==
    [][ (stop_returned /\ ~is_running)
        => \A t \in LoopIds :
             ~(pc[t] = "run" /\ pc'[t] # "run"
               /\ Len(alert_history') > Len(alert_history)) ]_vars

\* C5: at most one execution of run_tsunami_check is in flight at a time.
C5_SingleFlight ==
    Cardinality({t \in Threads : InFlight(t)}) <= 1

\* C6: a poll or status read never returns a record that mixes fields of
\* the state before a write with fields of the state after it.
C6_ReadersSeeWholeRecords ==
    poll_result.kind = "poll"
    => \/ poll_result.fresh \in {0, 4}
       \/ poll_result.record = poll_result.old

\* C7: an exception raised in a cycle never terminates the background
\* loop: from every point of the cycle the loop goes on within the cycle or
\* to its sleep, from the sleep to the loop test, and from the loop test
\* into the next cycle as long as is_running is True.
C7_ExceptionsKeepLoopAlive ==
    [][ \A t \in LoopIds :
          (Alive(t) /\ pc'[t] # pc[t])
          => /\ pc[t] \in {"run", "assign", "post", "handle"}
                  => pc'[t] \in {"assign", "post", "handle", "sleep"}
             /\ pc[t] = "sleep" => pc'[t] = "while"
             /\ (pc[t] = "while" /\ is_running) => pc'[t] = "run"
             /\ pc'[t] = "exited" => (pc[t] = "while" /\ ~is_running) ]_vars

\* a loop sleeping after _handle_alert raised in its first cycle: no cycle
\* has reached the assignment of last_check_time
C7_Witness ==
    /\ is_running
    /\ ~last_check_time
    /\ \E t \in LoopIds : pc[t] = "sleep"

\* C8: after stop_monitoring is called, every background loop that was
\* running eventually exits, whatever is invoked afterwards.
C8_StoppedLoopExits ==
    \A t \in LoopIds : stop_seen[t] ~> (pc[t] = "exited")

IsPrefix(s, t) == Len(s) <= Len(t) /\ SubSeq(t, 1, Len(s)) = s

\* C11: the alert history is append-only: every later state of the
\* history has every earlier state as a prefix, and a get_alert_history
\* call leaves the history as it was.
C11_AppendOnly ==
    [][ /\ IsPrefix(alert_history, alert_history')
        /\ (history_result' # history_result => alert_history' = alert_history) ]_vars

\* two assessments are stored and a query has returned
C11_Witness ==
    /\ Len(alert_history) = 2
    /\ alert_history[1] # alert_history[2]
    /\ history_result.kind = "history"

\* C12: get_alert_history(hours=0) returns the empty list whatever the
\* history holds, and get_alert_history(hours=h) returns exactly the
\* stored assessments stamped within the last h hours of the query time.
C12_WindowOfHours ==
    [][ history_result' # history_result
        => /\ (history_result'.hours = 0 => history_result'.alerts = << >>)
           /\ history_result'.alerts =
                 SelectSeq(alert_history,
                     LAMBDA alert : alert.timestamp + history_result'.hours * TicksPerHour
                                        >= history_result'.utcnow) ]_vars

\* the level text of an advisory names one of the four keywords
NamesLevel(advisory) == advisory \cap {"major", "warning", "advisory", "watch"} # {}

\* C13: when advisories are present, the alert level is that of the first
\* advisory, in list order, whose level text contains a keyword ('major'
\* or 'warning' gives WARNING, else 'advisory' gives ADVISORY, else
\* 'watch' gives WATCH), whatever the computed risk and the later
\* advisories are; an advisory without a keyword is skipped.
C13_FirstMatchingAdvisory ==
    call_assessment.kind = "full"
    => \A i \in 1..Len(call_advisories) :
          ( /\ NamesLevel(call_advisories[i])
            /\ \A j \in 1..(i - 1) : ~NamesLevel(call_advisories[j]) )
          => call_assessment.alert_level =
                IF call_advisories[i] \cap {"major", "warning"} # {} THEN "WARNING"
                ELSE IF "advisory" \in call_advisories[i] THEN "ADVISORY"
                ELSE "WATCH"

\* a HIGH result, a first advisory without a keyword and a second one
\* saying 'watch'
C13_Witness ==
    /\ call_assessment.kind = "full"
    /\ filterResult.risk_level = "HIGH"
    /\ call_advisories = << {}, {"watch"} >>
    /\ call_assessment.alert_level = "WATCH"

\* C14: when no advisory names a level, the alert level is NONE if
\* india_at_risk is False, and otherwise WARNING for risk_level HIGH,
\* ADVISORY for MEDIUM, WATCH for LOW and INFORMATION for any other
\* risk_level.
C14_RiskDerivedLevel ==
    ( /\ call_assessment.kind = "full"
      /\ \A i \in 1..Len(call_advisories) : ~NamesLevel(call_advisories[i]) )
    => call_assessment.alert_level =
          CASE ~filterResult.india_at_risk        -> "NONE"
            [] /\ filterResult.india_at_risk
               /\ filterResult.risk_level = "HIGH"   -> "WARNING"
            [] /\ filterResult.india_at_risk
               /\ filterResult.risk_level = "MEDIUM" -> "ADVISORY"
            [] /\ filterResult.india_at_risk
               /\ filterResult.risk_level = "LOW"    -> "WATCH"
            [] OTHER                               -> "INFORMATION"

\* an at-risk result below the lowest threshold, with one advisory that
\* names no level
C14_Witness ==
    /\ call_assessment.kind = "full"
    /\ call_advisories = << {} >>
    /\ filterResult.india_at_risk
    /\ filterResult.risk_level \notin {"HIGH", "MEDIUM", "LOW"}
    /\ call_assessment.alert_level = "INFORMATION"

\* C20: the key set of estimated_arrival_times equals the set of
\* affected_regions, whatever the names of the configured regions are.
C20_ArrivalTimeForEveryRegion ==
    call_assessment.kind = "full"
    => DOMAIN call_assessment.estimated_arrival_times
           = SeqRange(call_assessment.affected_regions)

\* C15: the risk_level of every result of assess_india_risk is one of
\* NONE, LOW, MEDIUM and HIGH.
C15_FourRiskLevels ==
    filterResult.kind = "filter"
    => filterResult.risk_level \in {"NONE", "LOW", "MEDIUM", "HIGH"}

\* C15, amended: the risk_level of every result is one of NONE, MINIMAL,
\* LOW, MEDIUM and HIGH; NONE comes only from the no-risk exits, and a
\* scored result is MINIMAL exactly when its score is below the low_risk
\* threshold.
C15_FiveRiskLevels ==
    filterResult.kind = "filter"
    => /\ filterResult.risk_level \in {"NONE", "MINIMAL", "LOW", "MEDIUM", "HIGH"}
       /\ filterResult.risk_level = "NONE"
             <=> filterResult.distance_to_coast_km = NoDistance
       /\ filterResult.risk_level = "MINIMAL"
             <=> /\ filterResult.distance_to_coast_km # NoDistance
                 /\ filterResult.india_risk_score < cfg.thresholds.low_risk

\* a scored, at-risk result below a low_risk threshold of 0.4
C15_Witness ==
    /\ filterResult.kind = "filter"
    /\ filterResult.distance_to_coast_km # NoDistance
    /\ filterResult.india_at_risk
    /\ filterResult.risk_level = "MINIMAL"

\* C17: the fused score of every result lies in [0, 1], for every model
\* risk in [0, 1], every zone weight and every factor the pipeline
\* produces.
C17_ScoreInUnitInterval ==
    filterResult.kind = "filter"
    => /\ filterResult.india_risk_score >= 0
       /\ filterResult.india_risk_score <= 10000

\* every factor at its maximum: the score is exactly 1.0
C17_Witness ==
    /\ filterResult.kind = "filter"
    /\ pred.risk_probability = 100
    /\ filterResult.location_threat = "critical"
    /\ filterResult.distance_to_coast_km <= 500
    /\ eq.magnitude >= 80
    /\ eq.depth < 70
    /\ filterResult.india_risk_score = 10000

\* C18: of two calls of assess_india_risk that differ only in the model's
\* risk_probability, the one with the larger probability never returns
\* the smaller india_risk_score, the 0.25 threshold included.
C18_MonotoneInModelRisk ==
    filterResult.kind = "filter"
    => \A p \in Predictions :
          p.risk_probability >= pred.risk_probability
          => assess_india_risk(eq, p, cfg).india_risk_score
                 >= filterResult.india_risk_score

\* a scored call at probability 0.25 whose neighbour at 0.24 leaves by the
\* no-risk exit
C18_Witness ==
    /\ filterResult.kind = "filter"
    /\ pred.risk_probability = 25
    /\ filterResult.india_risk_score > 0
    /\ assess_india_risk(eq, [risk_probability |-> 24], cfg).india_risk_score = 0
    /\ assess_india_risk(eq, [risk_probability |-> 90], cfg).india_risk_score
           > filterResult.india_risk_score

\* C16: the zone classifier returns the first zone, in the configured
\* order andaman_subduction, makran_subduction, sumatra_subduction,
\* arabian_sea, whose inclusive box contains the point, and 'none' with
\* weight 0 when no box does; a point with latitude in [0, 5] and
\* longitude in [90, 100] is always andaman_subduction with weight 1.0.
C16_FirstZoneInOrder ==
    zoneResult # NoResult
    => LET order   == << "andaman_subduction", "makran_subduction",
                         "sumatra_subduction", "arabian_sea" >>
           weights == << 100, 80, 50, 50 >>
           hits    == {i \in 1..4 : /\ critical_zones[i].zone = order[i]
                                     /\ InZone(critical_zones[i],
                                               eq.latitude, eq.longitude)}
       IN  /\ hits = {} => /\ zoneResult.zone = "none"
                           /\ zoneResult.threat_weight = 0
           /\ \A i \in hits :
                 (\A j \in hits : i <= j)
                 => /\ zoneResult.zone = order[i]
                    /\ zoneResult.threat_weight = weights[i]
           /\ ( /\ 0 <= eq.latitude /\ eq.latitude <= 5
                /\ 90 <= eq.longitude /\ eq.longitude <= 100 )
              => /\ zoneResult.zone = "andaman_subduction"
                 /\ zoneResult.threat_weight = 100

\* a point of the overlap of the andaman and sumatra boxes
C16_Witness ==
    /\ zoneResult # NoResult
    /\ eq.latitude = 5 /\ eq.longitude = 100
    /\ InZone(critical_zones[3], eq.latitude, eq.longitude)
    /\ zoneResult.zone = "andaman_subduction"

\* C19: the affected-region list holds exactly the configured coastal
\* regions whose centre lies within the magnitude-scaled impact radius
\* (4000 km from 8.5, 3000 km from 8.0, 2000 km from 7.5, 1500 km from
\* 7.0, 1000 km below) when the propagation factor is at least 0.3, it is
\* empty when the factor is below 0.3, and it never names a region that
\* is not configured.
C19_RegionsWithinImpactRadius ==
    regionsCall.kind = "regions"
    => LET radius == CASE eq.magnitude >= 85 -> 4000
                       [] eq.magnitude \in 80..84 -> 3000
                       [] eq.magnitude \in 75..79 -> 2000
                       [] eq.magnitude \in 70..74 -> 1500
                       [] OTHER -> 1000
           configured == {cfg.coastline[i] : i \in 1..Len(cfg.coastline)}
           within == {r \in configured : eq.dist_region[r] <= radius}
           listed == {regionsCall.affected[i] : i \in 1..Len(regionsCall.affected)}
       IN  /\ listed \subseteq configured
           /\ regionsCall.propagation_risk >= 30
              => /\ listed = within
                 /\ Len(regionsCall.affected) = Cardinality(within)
           /\ regionsCall.propagation_risk < 30 => regionsCall.affected = << >>

\* magnitude 8.5: a region 4000 km away is listed, one 4001 km away is not
C19_Witness ==
    /\ regionsCall.kind = "regions"
    /\ regionsCall.propagation_risk = 30
    /\ eq.magnitude = 85
    /\ eq.dist_region["lakshadweep"] = 4000
    /\ eq.dist_region["east_coast"] = 4001
    /\ regionsCall.affected = << "west_coast", "andaman_nicobar", "lakshadweep" >>

Qualifying(response) ==
    IF response.status = "failed" THEN {}
    ELSE {response.body[i] : i \in {j \in 1..Len(response.body) :
                                       response.body[j].magnitude >= 65}}

\* C22: the event analysed in a cycle is the one of greatest magnitude
\* among the fetched events of magnitude >= 6.5; when no event qualifies
\* the cycle returns a no-threat assessment with alert_level NONE,
\* india_at_risk False and india_risk_score 0.0.
C22_MostSignificantEvent ==
    ( /\ checkCall.kind = "returned"
      /\ checkCall.result # NoResult )
    => IF Qualifying(checkCall.usgs) = {}
       THEN /\ checkCall.result.alert_level = "NONE"
            /\ checkCall.result.india_at_risk = FALSE
            /\ checkCall.result.india_risk_score = 0
       ELSE \A q \in Qualifying(checkCall.usgs) :
               checkCall.result.earthquake_info.magnitude >= q.magnitude

\* C23: a check that fails returns None, never a stale earlier assessment
\* and never a default-risk assessment, and appends nothing to the alert
\* history.
C23_FailedCheckReturnsNone ==
    [][ ( /\ checkCall.kind = "args"
          /\ checkCall'.kind = "returned"
          /\ checkCall.raises
          /\ Qualifying(checkCall.usgs) # {} )
        => /\ checkCall'.result = NoResult
           /\ alert_history' = alert_history
           /\ current_assessment' = current_assessment ]_vars

\* a failed check after an earlier cycle left an assessment
C23_Witness ==
    /\ checkCall.kind = "returned"
    /\ checkCall.raises
    /\ Qualifying(checkCall.usgs) # {}
    /\ checkCall.result = NoResult
    /\ current_assessment = EarlierAssessment
    /\ alert_history = << EarlierAssessment >>

\* C25: a timeout or failure of the seismic fetch or of the advisory fetch
\* is replaced by an empty default for that source and does not abort the
\* cycle: the cycle still returns an assessment rather than None.
C25_FetchFailureDegrades ==
    ( /\ checkCall.kind = "returned"
      /\ ~checkCall.raises )
    => /\ checkCall.result # NoResult
       /\ checkCall.usgs.status = "failed" => checkCall.result.kind = "nothreat"
       /\ ( /\ checkCall.incois.status = "failed"
            /\ checkCall.result.kind = "full"
            /\ ~checkCall.result.india_at_risk )
          => checkCall.result.alert_level = "NONE"

\* the advisory fetch fails while the seismic feed holds a qualifying
\* event: the cycle returns a full assessment
C25_Witness ==
    /\ checkCall.kind = "returned"
    /\ ~checkCall.raises
    /\ checkCall.incois.status = "failed"
    /\ checkCall.usgs.status = "ok"
    /\ checkCall.result.kind = "full"
    /\ checkCall.result.india_at_risk

\* C24: current_assessment is the latest assessment: whenever a check
\* completes with a result, a no-threat result included,
\* current_assessment is that result.
C24_CurrentIsLatest ==
    [][ \A t \in Threads :
           ( /\ InFlight(t)
             /\ ~InFlight(t)'
             /\ local'[t] # NoResult )
           => current_assessment' = local'[t] ]_vars

\* no no-risk exit applies to the call: model risk at least 0.25, the
\* epicentre in a zone, a configured region within the critical radius
PassesAllExits ==
    /\ pred.risk_probability >= 25
    /\ ~OutsideAllZones(eq.latitude, eq.longitude)
    /\ \E i \in 1..Len(cfg.coastline) :
           eq.dist_region[cfg.coastline[i]] <= cfg.critical_radius_km

\* C26: for every input that passes the three no-risk exits the fused
\* score is at least 0.3125 and india_at_risk is True; hence india_at_risk
\* is True exactly when no no-risk exit fired.
C26_ScoredMeansAtRisk ==
    filterResult.kind = "filter"
    => /\ PassesAllExits => /\ filterResult.india_risk_score >= 3125
                            /\ filterResult.india_at_risk
       /\ filterResult.india_at_risk <=> PassesAllExits

\* every factor at its minimum: the score is exactly 0.3125
C26_Witness ==
    /\ filterResult.kind = "filter"
    /\ PassesAllExits
    /\ pred.risk_probability = 25
    /\ filterResult.india_risk_score = 3125
    /\ filterResult.india_at_risk

\* C27: in every assessment built from an assess_india_risk result,
\* india_at_risk False implies that affected_regions and
\* estimated_arrival_times are empty, even when an advisory raises the
\* alert level.
C27_NoRiskNoRegions ==
    ( /\ call_assessment.kind = "full"
      /\ ~call_assessment.india_at_risk )
    => /\ call_assessment.affected_regions = << >>
       /\ DOMAIN call_assessment.estimated_arrival_times = {}

\* a no-risk result under an official warning
C27_Witness ==
    /\ call_assessment.kind = "full"
    /\ ~call_assessment.india_at_risk
    /\ call_assessment.alert_level = "WARNING"
    /\ call_assessment.affected_regions = << >>

\* C28: in every assessment, india_at_risk True implies that alert_level
\* is not NONE, for every list of advisories.
C28_AtRiskIsAlerted ==
    ( /\ call_assessment.kind = "full"
      /\ call_assessment.india_at_risk )
    => call_assessment.alert_level # "NONE"

\* an at-risk result below the lowest threshold and no advisory at all
C28_Witness ==
    /\ call_assessment.kind = "full"
    /\ call_assessment.india_at_risk
    /\ call_advisories = << >>
    /\ filterResult.risk_level = "MINIMAL"
    /\ call_assessment.alert_level = "INFORMATION"

\* C29: after any sequence of complete set, clear and predict operations
\* from process start, active False implies level 0 and an empty message;
\* the state becomes inactive only through an explicit clear; and a
\* prediction below advisory level (2) writes nothing to the state.
C29_InactiveOnlyThroughClear ==
    /\ []( ( writer.op = "idle" /\ ~cloud_alert_state.active )
           => /\ cloud_alert_state.level = 0
              /\ cloud_alert_state.message = EmptyMessage )
    /\ [][ /\ ( cloud_alert_state.active /\ ~cloud_alert_state'.active )
              => writer.op = "clear"
           /\ ( cloud_alert_state' # cloud_alert_state /\ writer.op = "predict" )
              => /\ writer.level >= 2
                 /\ \E r \in PredictRequests :
                        writer.level = PredictAlertLevel(r) ]_vars

\* a manual alert was set and recorded, and a later clear has completed
C29_Witness ==
    /\ writer.op = "idle"
    /\ Len(iot_alert_history) > 0
    /\ ~cloud_alert_state.active
    /\ cloud_alert_state.level = 0
    /\ cloud_alert_state.message = EmptyMessage
    /\ cloud_alert_state.source = "manual"

\* C30: for any interleaving of concurrent get_inference_engine calls the
\* constructor completes successfully at most once and every caller that
\* returns receives the same instance; if construction raises, the global
\* stays None and the lock is released, so that a later call can retry.
C30_OneEngine ==
    /\ []( /\ engines_built <= 1
           /\ \A g \in GetterIds :
                  getter[g].result >= 1 => getter[g].result = inference_engine
           /\ \A g, h \in GetterIds :
                  ( getter[g].result >= 1 /\ getter[h].result >= 1 )
                  => getter[g].result = getter[h].result )
    /\ [][ \A g \in GetterIds :
              ( getter[g].pc = "construct" /\ getter'[g].result = Raised )
              => /\ inference_engine' = 0
                 /\ LockFree(engine_lock')
                 /\ getter'[g].pc = "idle" ]_vars

\* one caller saw the constructor raise, a later call built the engine and
\* a third caller received the same instance
C30_Witness ==
    \E g, h, k \in GetterIds :
        /\ g # h /\ h # k /\ g # k
        /\ getter[g].result = Raised
        /\ getter[h].result = 1
        /\ getter[k].result = 1
        /\ engines_built = 1

====
